---- MODULE Spec2Model ----
(***************************************************************************)
(* Model of api/app.py: the Flask service that lazily loads three joblib   *)
(* artifacts (model, scaler, label_encoder) into module globals and        *)
(* answers GET /, GET /health, OPTIONS /predict and POST /predict.         *)
(*                                                                         *)
(* Requests are handled by worker threads.  A request's handler is cut     *)
(* into steps at every read or write of a module global and at every file  *)
(* system call, so that the model has every interleaving the interpreter   *)
(* can produce between two threads.                                        *)
(***************************************************************************)
EXTENDS Integers, Sequences, FiniteSets, TLC

\* ---------------------------------------------------------------- bounds
MaxRequests == 2
MaxFileChanges == 1

Threads == {"w1", "w2"}

\* an unset global; a loaded object is identified by the request that loaded it
None == 0

\* ------------------------------------------------------ program constants
FEATURE_COLUMNS ==
    << "Matematika", "Fisika", "Kimia", "Biologi", "Ekonomi",
       "Sosiologi", "Agama Islam", "PPKN", "Sejarah",
       "Seni Budaya", "Penjas", "B_Indonesia", "B_Inggris" >>

FeatureSet == {FEATURE_COLUMNS[i] : i \in 1..Len(FEATURE_COLUMNS)}

\* the three artifact files, by the global each one is loaded into
Artifacts == {"model", "scaler", "label_encoder"}

model_path == "base_dir/model.pkl"
scaler_path == "base_dir/scaler.pkl"
label_path == "base_dir/label_encoder.pkl"

PathOf(a) ==
    CASE a = "model" -> model_path
      [] a = "scaler" -> scaler_path
      [] a = "label_encoder" -> label_path

FileNameOf(a) ==
    CASE a = "model" -> "model.pkl"
      [] a = "scaler" -> "scaler.pkl"
      [] a = "label_encoder" -> "label_encoder.pkl"

\* what the file system holds for an artifact
FileStates == {"ok", "missing", "corrupt"}

\* --------------------------------------------------------- request inputs
\* The 13 scores of a body are abstracted to one token: two numeric vectors
\* and one vector holding a non-numeric value.
Vectors == {"vecA", "vecB", "nonNumeric"}

KeySets ==
    { {},
      {"extra"},
      FeatureSet \ {"Fisika", "Penjas"},
      (FeatureSet \ {"Sejarah"}) \cup {"extra"},
      {"B_Inggris", "Matematika"} }

FullKeySets == {FeatureSet, FeatureSet \cup {"extra"}}

\* what request.get_json() hands to the handler: None, or a JSON object. The
\* object's keys come in FEATURE_COLUMNS order (a key "extra" last) or in
\* the reverse of that order.
AbsentBody ==
    [kind |-> "absent", keys |-> {}, vals |-> "vecA", order |-> "canonical"]

ObjectBodies ==
    { [kind |-> "object", keys |-> k, vals |-> "vecA", order |-> "canonical"] :
        k \in KeySets }
    \cup
    { [kind |-> "object", keys |-> k, vals |-> v, order |-> "canonical"] :
        k \in FullKeySets, v \in Vectors }
    \cup
    { [kind |-> "object", keys |-> FeatureSet, vals |-> "vecA",
       order |-> "reversed"] }

Bodies == {AbsentBody} \cup ObjectBodies

\* the scores a client sends under the 13 keys, by position in FEATURE_COLUMNS;
\* "nonNumeric" is vecA with a string in place of a number
ScoresOf(v) ==
    IF v = "vecB"
    THEN <<60, 65, 70, 75, 90, 85, 95, 88, 77, 82, 90, 85, 80>>
    ELSE <<90, 85, 80, 75, 70, 65, 95, 88, 77, 82, 90, 85, 80>>

IndexOf(f) == CHOOSE i \in 1..Len(FEATURE_COLUMNS) : FEATURE_COLUMNS[i] = f

\* the value the body of scores v holds under key f
Score(v, f) == IF f \in FeatureSet THEN ScoresOf(v)[IndexOf(f)] ELSE 100

Reverse(q) == [i \in 1..Len(q) |-> q[Len(q) + 1 - i]]

\* the keys of a body in the order the client wrote them
KeyOrder(d) ==
    LET known == SelectSeq(FEATURE_COLUMNS, LAMBDA f : f \in d.keys)
        all == IF "extra" \in d.keys THEN known \o <<"extra">> ELSE known
    IN  IF d.order = "reversed" THEN Reverse(all) ELSE all

\* the dict get_json() builds: its (key, value) items in body order
Items(d) ==
    LET ks == KeyOrder(d)
    IN  [i \in 1..Len(ks) |-> <<ks[i], Score(d.vals, ks[i])>>] \o <<>>

\* data[f]: the value of the item whose key is f
Lookup(items, f) ==
    items[CHOOSE i \in 1..Len(items) : items[i][1] = f][2]

\* the row built from the dict's values in the order they were sent
InputValues_m(d) ==
    LET items == Items(d)
    IN  [i \in 1..Len(FEATURE_COLUMNS) |-> items[i][2]]

\* line 106: input_values = [data[f] for f in FEATURE_COLUMNS]
InputValues(d) ==
    LET items == Items(d)
    IN  [i \in 1..Len(FEATURE_COLUMNS) |-> Lookup(items, FEATURE_COLUMNS[i])]

\* line 107: the row of every body that passes validation
RowOf ==
    [d \in {b \in ObjectBodies : FeatureSet \subseteq b.keys} |->
        InputValues(d) \o <<>>]

BodyKinds == {"absent", "object"}

\* ------------------------------------------------------------- responses
Msg(text, args) == [text |-> text, args |-> args]

Resp(code, body) == [code |-> code, body |-> body]

NoResp == Resp(0, [none |-> TRUE])

\* ------------------------------------------------------------------ state
VARIABLES
    model, scaler, label_encoder,   \* the three module globals
    files,          \* the file system: artifact -> FileStates
    pc,             \* thread -> position in its handler
    route,          \* thread -> the handler of its current request
    sent,           \* thread -> whether its request carries a JSON body
    data,           \* thread -> predict's local `data` (line 97)
    rid,            \* thread -> number of its current request
    resp,           \* thread -> the response of its current request
    loadResult,     \* thread -> how the request's load_models call ended
    io,             \* thread -> the request's load_models touched the files
    startedLoaded,  \* thread -> all three globals were set when it began
    nreq,           \* requests begun so far
    fileChanges,    \* changes made to the artifact files so far
    loadsDone,      \* load_models calls that ran to "Models loaded successfully!"
    everBad,        \* some artifact file has been missing or corrupt
    predictStarted, \* some POST /predict has begun
    successSeen     \* some POST /predict has returned status success

globals == <<model, scaler, label_encoder>>
locals == <<pc, route, sent, data, rid, resp, loadResult, io, startedLoaded>>
history == <<nreq, loadsDone, predictStarted, successSeen>>
env == <<files, fileChanges, everBad>>
vars == <<globals, locals, history, env>>

AllSet == model # None /\ scaler # None /\ label_encoder # None
AllNone == model = None /\ scaler = None /\ label_encoder = None

\* ---------------------------------------------------------- load_models
\* the guard left out: every call loads
AlreadyLoaded_m == FALSE

\* line 22: if model is not None: return
AlreadyLoaded == model # None

\* os.path.exists(path)
Exists(a) == files[a] # "missing"

\* the message of line 44 pasted into lines 46 and 48 unchanged
NotFoundError_m(a) == Msg("not found at", <<"model.pkl", model_path>>)

\* lines 44, 46, 48: the FileNotFoundError load_models raises
NotFoundError(a) == Msg("not found at", <<FileNameOf(a), PathOf(a)>>)

\* joblib.load(path) returns an object when the file is a readable pickle
Loadable(a) == files[a] = "ok"

\* the exception joblib.load(path) raises otherwise
JoblibError(a) ==
    IF files[a] = "missing"
    THEN Msg("No such file or directory", <<PathOf(a)>>)
    ELSE Msg("deserialization failed", <<PathOf(a)>>)

\* ------------------------------------------------------------- responses
\* the except branch returning its JSON without the status code 500
ServerError_ok(e) == Resp(200, [error |-> e, status |-> "failed"])

\* the except branch answering as a client error, without the status field
ServerError_m(e) == Resp(400, [error |-> e])

\* line 122: the except branch of predict
ServerError(e) == Resp(500, [error |-> e, status |-> "failed"])

\* the rejection written without the error key
NoJsonResponse_m == Resp(400, [message |-> Msg("No JSON data provided", <<>>)])

\* line 100
NoJsonResponse == Resp(400, [error |-> Msg("No JSON data provided", <<>>)])

\* the test written as `data == {}`, which None does not pass
NoData_m(d) == d.kind = "object" /\ d.keys = {}

\* line 99: `not data` is true of None and of every empty value
NoData(d) == d.kind = "absent" \/ d.keys = {}

\* line 102: [f for f in FEATURE_COLUMNS if f not in data]
IsMissing(d, f) == f \notin d.keys
Missing(d) == SelectSeq(FEATURE_COLUMNS, LAMBDA f : IsMissing(d, f))

\* line 104
MissingResponse(d) == Resp(400, [error |-> Msg("Missing fields: ", Missing(d))])

\* the fitted pipeline applied to a row: scaler.transform, model.predict,
\* inverse_transform. The artifacts are opaque; a fixed function of the row
\* that tells its positions apart stands for them.
Classify(row) == IF row[1] >= row[5] THEN "IPA" ELSE "IPS"

\* lines 114-117
SuccessResponse(label) ==
    Resp(200, [rekomendasi_jurusan |-> label, status |-> "success"])

\* the test inverted
ModelsLoaded_m == model = None

\* line 85
ModelsLoaded == model # None

\* lines 83-86
HealthResponse == Resp(200, [status |-> "healthy", models_loaded |-> ModelsLoaded])

\* lines 70-79
HomeResponse ==
    Resp(200, [message |-> "API Rekomendasi Jurusan", status |-> "running",
               platform |-> "Vercel Serverless",
               endpoints |-> {"/", "/health", "/predict"}])

\* line 91
OptionsResponse == Resp(200, [text |-> ""])

\* ------------------------------------------------------------------- Init
Init ==
    /\ model = None
    /\ scaler = None
    /\ label_encoder = None
    /\ files = [a \in Artifacts |-> "ok"]
    /\ pc = [t \in Threads |-> "idle"]
    /\ route = [t \in Threads |-> "none"]
    /\ sent = [t \in Threads |-> "absent"]
    /\ data = [t \in Threads |-> AbsentBody]
    /\ rid = [t \in Threads |-> 0]
    /\ resp = [t \in Threads |-> NoResp]
    /\ loadResult = [t \in Threads |-> "none"]
    /\ io = [t \in Threads |-> FALSE]
    /\ startedLoaded = [t \in Threads |-> FALSE]
    /\ nreq = 0
    /\ fileChanges = 0
    /\ loadsDone = 0
    /\ everBad = FALSE
    /\ predictStarted = FALSE
    /\ successSeen = FALSE

\* --------------------------------------------------------------- requests
\* a thread takes the next request
Begin(t, r, k) ==
    /\ pc[t] \in {"idle", "done"}
    /\ nreq < MaxRequests
    /\ nreq' = nreq + 1
    /\ rid' = [rid EXCEPT ![t] = nreq + 1]
    /\ route' = [route EXCEPT ![t] = r]
    /\ sent' = [sent EXCEPT ![t] = k]
    /\ data' = [data EXCEPT ![t] = AbsentBody]
    /\ loadResult' = [loadResult EXCEPT ![t] = "none"]
    /\ io' = [io EXCEPT ![t] = FALSE]
    /\ startedLoaded' = [startedLoaded EXCEPT ![t] = AllSet]

\* the handler returns response r
Return(t, r) ==
    /\ pc' = [pc EXCEPT ![t] = "done"]
    /\ resp' = [resp EXCEPT ![t] = r]

Goto(t, label) ==
    /\ pc' = [pc EXCEPT ![t] = label]
    /\ resp' = resp

\* lines 68-79: GET /
Home(t) ==
    /\ Begin(t, "home", "absent")
    /\ Return(t, HomeResponse)
    /\ UNCHANGED <<globals, env, loadsDone, predictStarted, successSeen>>

\* health made to call load_models before it answers
Health_m(t) ==
    /\ Begin(t, "health", "absent")
    /\ pc' = [pc EXCEPT ![t] = "load_models"]
    /\ resp' = [resp EXCEPT ![t] = NoResp]
    /\ UNCHANGED <<globals, env, loadsDone, predictStarted, successSeen>>

\* lines 81-86: GET /health
Health(t) ==
    /\ Begin(t, "health", "absent")
    /\ Return(t, HealthResponse)
    /\ UNCHANGED <<globals, env, loadsDone, predictStarted, successSeen>>

\* lines 90-91: OPTIONS /predict
Options(t) ==
    /\ Begin(t, "options", "absent")
    /\ Return(t, OptionsResponse)
    /\ UNCHANGED <<globals, env, loadsDone, predictStarted, successSeen>>

\* lines 88-95: POST /predict enters the try block and calls load_models
PredictBegin(t) ==
    /\ \E k \in BodyKinds : Begin(t, "predict", k)
    /\ pc' = [pc EXCEPT ![t] = "load_models"]
    /\ resp' = [resp EXCEPT ![t] = NoResp]
    /\ predictStarted' = TRUE
    /\ UNCHANGED <<globals, env, loadsDone, successSeen>>

\* line 59 left out: the exception is printed and load_models returns
LoadRaises_m(t, e) ==
    /\ Goto(t, "get_json")
    /\ loadResult' = [loadResult EXCEPT ![t] = "failed"]

\* an exception e raised inside load_models: printed, re-raised (line 59),
\* caught by predict (line 119) and answered with 500 (line 122)
LoadRaises(t, e) ==
    /\ Return(t, ServerError(e))
    /\ loadResult' = [loadResult EXCEPT ![t] = "failed"]

\* lines 22-23: the check of load_models
LoadCheck(t) ==
    /\ pc[t] = "load_models"
    /\ IF AlreadyLoaded
       THEN /\ Goto(t, "get_json")
            /\ loadResult' = [loadResult EXCEPT ![t] = "skipped"]
       ELSE /\ Goto(t, "exists_model")
            /\ loadResult' = loadResult
    /\ UNCHANGED <<globals, env, history, route, sent, data, rid, io, startedLoaded>>

\* lines 43-48: one os.path.exists check; `next` is the position after it
ExistsStep(t, here, a, next) ==
    /\ pc[t] = here
    /\ io' = [io EXCEPT ![t] = TRUE]
    /\ IF Exists(a)
       THEN /\ Goto(t, next)
            /\ loadResult' = loadResult
       ELSE LoadRaises(t, NotFoundError(a))
    /\ UNCHANGED <<globals, env, history, route, sent, data, rid, startedLoaded>>

ExistsModel(t) == ExistsStep(t, "exists_model", "model", "exists_scaler")
ExistsScaler(t) == ExistsStep(t, "exists_scaler", "scaler", "exists_label")
ExistsLabel(t) == ExistsStep(t, "exists_label", "label_encoder", "load_model")

\* line 20 without `model`: line 51 binds a local and the global stays None
LoadModel_m(t) ==
    /\ pc[t] = "load_model"
    /\ IF Loadable("model")
       THEN /\ Goto(t, "load_scaler")
            /\ loadResult' = loadResult
       ELSE LoadRaises(t, JoblibError("model"))
    /\ UNCHANGED <<globals, env, history, route, sent, data, rid, io,
                   startedLoaded>>

\* line 51: model = joblib.load(model_path)
LoadModel(t) ==
    /\ pc[t] = "load_model"
    /\ IF Loadable("model")
       THEN /\ model' = rid[t]
            /\ Goto(t, "load_scaler")
            /\ loadResult' = loadResult
       ELSE /\ model' = model
            /\ LoadRaises(t, JoblibError("model"))
    /\ UNCHANGED <<scaler, label_encoder, env, history, route, sent, data, rid, io,
                   startedLoaded>>

\* line 52: scaler = joblib.load(scaler_path)
LoadScaler(t) ==
    /\ pc[t] = "load_scaler"
    /\ IF Loadable("scaler")
       THEN /\ scaler' = rid[t]
            /\ Goto(t, "load_label")
            /\ loadResult' = loadResult
       ELSE /\ scaler' = scaler
            /\ LoadRaises(t, JoblibError("scaler"))
    /\ UNCHANGED <<model, label_encoder, env, history, route, sent, data, rid, io,
                   startedLoaded>>

\* lines 53-55: label_encoder = joblib.load(label_path), then load_models returns
LoadLabel(t) ==
    /\ pc[t] = "load_label"
    /\ IF Loadable("label_encoder")
       THEN /\ label_encoder' = rid[t]
            /\ Goto(t, "get_json")
            /\ loadResult' = [loadResult EXCEPT ![t] = "loaded"]
            /\ loadsDone' = loadsDone + 1
       ELSE /\ label_encoder' = label_encoder
            /\ LoadRaises(t, JoblibError("label_encoder"))
            /\ loadsDone' = loadsDone
    /\ UNCHANGED <<model, scaler, env, nreq, predictStarted, successSeen, route,
                   sent, data, rid, io, startedLoaded>>

\* ---------------------------------------------------------------- predict
\* lines 97-107: data = request.get_json(), validate it, build the input row
Validate(t) ==
    /\ pc[t] = "get_json"
    /\ \E b \in Bodies :
         /\ b.kind = sent[t]
         /\ data' = [data EXCEPT ![t] = b]
         /\ IF NoData(b)
            THEN Return(t, NoJsonResponse)
            ELSE IF Missing(b) # <<>>
                 THEN Return(t, MissingResponse(b))
                 ELSE Goto(t, "transform")
    /\ UNCHANGED <<globals, env, history, route, sent, rid, loadResult, io,
                   startedLoaded>>

\* line 108: input_scaled = scaler.transform(input_array)
Transform(t) ==
    /\ pc[t] = "transform"
    /\ IF scaler = None
       THEN Return(t, ServerError(Msg("'NoneType' object has no attribute",
                                      <<"transform">>)))
       ELSE IF data[t].vals = "nonNumeric"
            THEN Return(t, ServerError(Msg("could not convert string to float",
                                           <<>>)))
            ELSE Goto(t, "model_predict")
    /\ UNCHANGED <<globals, env, history, route, sent, data, rid, loadResult, io,
                   startedLoaded>>

\* line 109: hasil_encoded = model.predict(input_scaled)
ModelPredict(t) ==
    /\ pc[t] = "model_predict"
    /\ IF model = None
       THEN Return(t, ServerError(Msg("'NoneType' object has no attribute",
                                      <<"predict">>)))
       ELSE Goto(t, "inverse_transform")
    /\ UNCHANGED <<globals, env, history, route, sent, data, rid, loadResult, io,
                   startedLoaded>>

\* lines 110-117: decode the label and answer
InverseTransform(t) ==
    /\ pc[t] = "inverse_transform"
    /\ IF label_encoder = None
       THEN /\ Return(t, ServerError(Msg("'NoneType' object has no attribute",
                                         <<"inverse_transform">>)))
            /\ successSeen' = successSeen
       ELSE /\ Return(t, SuccessResponse(Classify(RowOf[data[t]])))
            /\ successSeen' = TRUE
    /\ UNCHANGED <<globals, env, nreq, loadsDone, predictStarted, route, sent,
                   data, rid, loadResult, io, startedLoaded>>

\* ------------------------------------------------------------ environment
\* an artifact file is deleted, damaged or put back between two steps
ChangeFile(a, s) ==
    /\ fileChanges < MaxFileChanges
    /\ files[a] # s
    /\ files' = [files EXCEPT ![a] = s]
    /\ fileChanges' = fileChanges + 1
    /\ everBad' = (everBad \/ s # "ok")
    /\ UNCHANGED <<globals, locals, history>>

Next ==
    \/ \E t \in Threads : Home(t)
    \/ \E t \in Threads : Health(t)
    \/ \E t \in Threads : Options(t)
    \/ \E t \in Threads : PredictBegin(t)
    \/ \E t \in Threads : LoadCheck(t)
    \/ \E t \in Threads : ExistsModel(t)
    \/ \E t \in Threads : ExistsScaler(t)
    \/ \E t \in Threads : ExistsLabel(t)
    \/ \E t \in Threads : LoadModel(t)
    \/ \E t \in Threads : LoadScaler(t)
    \/ \E t \in Threads : LoadLabel(t)
    \/ \E t \in Threads : Validate(t)
    \/ \E t \in Threads : Transform(t)
    \/ \E t \in Threads : ModelPredict(t)
    \/ \E t \in Threads : InverseTransform(t)
    \/ \E a \in Artifacts, s \in FileStates : ChangeFile(a, s)

Spec == Init /\ [][Next]_vars

\* ------------------------------------------------------------- vocabulary
LoadPcs == {"load_models", "exists_model", "exists_scaler", "exists_label",
            "load_model", "load_scaler", "load_label"}

\* thread t is inside a call of load_models
InLoad(t) == pc[t] \in LoadPcs

\* thread t has answered a POST /predict
PredictDone(t) == pc[t] = "done" /\ route[t] = "predict"

\* the request of thread t assigned none of the three globals
AssignedNothing(t) ==
    model # rid[t] /\ scaler # rid[t] /\ label_encoder # rid[t]

\* a body with all 13 keys and numeric values
ValidBody(d) ==
    /\ d.kind = "object"
    /\ FeatureSet \subseteq d.keys
    /\ d.vals # "nonNumeric"

\* the positions of FEATURE_COLUMNS whose key the body lacks, ascending
RECURSIVE MissingFrom(_, _)
MissingFrom(d, i) ==
    IF i > Len(FEATURE_COLUMNS) THEN <<>>
    ELSE IF FEATURE_COLUMNS[i] \in d.keys THEN MissingFrom(d, i + 1)
         ELSE <<FEATURE_COLUMNS[i]>> \o MissingFrom(d, i + 1)

\* thread t takes a step of its handler
Step(t) == <<pc[t], rid[t]>>' # <<pc[t], rid[t]>>

\* ------------------------------------------------------------ C1
\* C1: whenever no call of load_models is in progress, model, scaler and
\* label_encoder are all unset or all set, whatever the calls' outcomes.
C1_AllOrNothing ==
    (\A t \in Threads : ~InLoad(t)) => (AllNone \/ AllSet)

\* ------------------------------------------------------------ C2
\* C2: a call of load_models that fails leaves the loader unloaded: the
\* failed call has assigned none of model, scaler, label_encoder, so the next
\* call finds model unset and loads again.
C2_FailedLoadLeavesUnloaded ==
    \A t \in Threads :
        (pc[t] = "done" /\ loadResult[t] = "failed") => AssignedNothing(t)

\* ------------------------------------------------------------ C3
\* C3: while the three files stay present and deserializable, every POST
\* /predict with a valid feature vector returns the success response, under
\* every interleaving of concurrent requests.
C3_RaceBenign ==
    ~everBad =>
        \A t \in Threads :
            (PredictDone(t) /\ ValidBody(data[t])) =>
                /\ resp[t].code = 200
                /\ resp[t].body.status = "success"

\* ------------------------------------------------------------ C4
\* C4: a POST /predict whose JSON object lacks one or more of the 13 keys
\* (the empty object included) is answered 400 with 'Missing fields: [...]'
\* listing exactly the missing keys in FEATURE_COLUMNS order.
C4_MissingFieldsListed ==
    \A t \in Threads :
        ( /\ PredictDone(t)
          /\ loadResult[t] # "failed"
          /\ data[t].kind = "object"
          /\ ~(FeatureSet \subseteq data[t].keys) )
        => resp[t] = Resp(400, [error |-> Msg("Missing fields: ",
                                              MissingFrom(data[t], 1))])

C6_ValidGetsRecommendedTrack ==
    \A t \in Threads :
        ( /\ PredictDone(t)
          /\ loadResult[t] # "failed"
          /\ ValidBody(data[t]) )
        => /\ resp[t].code = 200
           /\ DOMAIN resp[t].body = {"recommendedTrack", "status"}
           /\ resp[t].body.status = "success"

\* ------------------------------------------------------------ C7
\* the position of load_models at which artifact a is checked for existence
ExistsPc(a) ==
    CASE a = "model" -> "exists_model"
      [] a = "scaler" -> "exists_scaler"
      [] a = "label_encoder" -> "exists_label"

\* C7: when load_models, running with model unset, finds an artifact file
\* missing, it raises the not-found error naming that file and its path, the
\* call has assigned none of the three globals, and the POST /predict that
\* made the call is answered 500 with that message as its error.
C7_MissingFileAborts ==
    [][ \A t \in Threads : \A a \in Artifacts :
            (pc[t] = ExistsPc(a) /\ files[a] = "missing" /\ Step(t)) =>
                /\ UNCHANGED globals
                /\ AssignedNothing(t)'
                /\ loadResult'[t] = "failed"
                /\ pc'[t] = "done"
                /\ resp'[t] =
                     Resp(500, [error |-> Msg("not found at",
                                              <<FileNameOf(a), PathOf(a)>>),
                                status |-> "failed"]) ]_vars

C7_Witness ==
    \E t \in Threads :
        /\ PredictDone(t)
        /\ loadResult[t] = "failed"
        /\ files["scaler"] = "missing"
        /\ resp[t] = Resp(500, [error |-> Msg("not found at",
                                             <<"scaler.pkl", scaler_path>>),
                                status |-> "failed"])
        /\ AllNone

\* ------------------------------------------------------------ C8
\* C8 as stated: over the process lifetime load_models loads exactly once.
C8_LoadsAtMostOnce == loadsDone <= 1

\* C8 amended: a call of load_models that starts after a load has completed
\* returns at once: it makes no file-existence check and no deserialization,
\* and it leaves the three globals unchanged.
C8_NoIoAfterLoad ==
    [][ \A t \in Threads :
            (pc[t] = "load_models" /\ loadsDone >= 1 /\ Step(t)) =>
                /\ pc'[t] = "get_json"
                /\ loadResult'[t] = "skipped"
                /\ io'[t] = FALSE
                /\ UNCHANGED globals
                /\ UNCHANGED loadsDone ]_vars

C8_Witness ==
    \E t \in Threads :
        /\ loadsDone >= 1
        /\ startedLoaded[t]
        /\ loadResult[t] = "skipped"
        /\ ~io[t]
        /\ pc[t] = "get_json"

\* ------------------------------------------------------------ C9
\* C9: once model, scaler and label_encoder are all set they stay set, and
\* no step of a request that began after that (home, health, options or
\* predict, whatever its answer) assigns any of them.
C9_LoadedIsTerminal ==
    [][ /\ AllSet => AllSet'
        /\ \A t \in Threads :
               (startedLoaded[t] /\ rid'[t] = rid[t] /\ Step(t)) =>
                   UNCHANGED globals ]_vars

C9_Witness ==
    \E t \in Threads :
        /\ startedLoaded[t]
        /\ PredictDone(t)
        /\ resp[t].code = 400
        /\ AllSet

\* ------------------------------------------------------------ C10
\* C10: GET /health answers 200 with status 'healthy' and models_loaded
\* equal to the loader's own test of its state (model is set): false as long
\* as no POST /predict has begun, true once a POST /predict has succeeded.
C10_HealthReportsLoader ==
    [][ \A t \in Threads :
            (rid'[t] # rid[t] /\ route'[t] = "health") =>
                /\ pc'[t] = "done"
                /\ resp'[t].code = 200
                /\ DOMAIN resp'[t].body = {"status", "models_loaded"}
                /\ resp'[t].body.status = "healthy"
                /\ resp'[t].body.models_loaded = AlreadyLoaded
                /\ ~predictStarted => resp'[t].body.models_loaded = FALSE
                /\ successSeen => resp'[t].body.models_loaded = TRUE
                /\ UNCHANGED globals ]_vars

C10_Witness ==
    \E t \in Threads :
        /\ pc[t] = "done"
        /\ route[t] = "health"
        /\ successSeen
        /\ resp[t].body.models_loaded = TRUE

\* ------------------------------------------------------------ C11
PipelinePcs == {"transform", "model_predict", "inverse_transform"}

\* the JSON envelope of line 122
IsFailed500(r) ==
    /\ r.code = 500
    /\ DOMAIN r.body = {"error", "status"}
    /\ r.body.status = "failed"

\* C11: a POST /predict that passed validation and then fails while scaling,
\* predicting or decoding (a non-numeric value, an unset scaler) is answered
\* 500 with { error, status: "failed" }, never 400, and the failing step
\* leaves model, scaler and label_encoder as they were.
C11_PipelineFailureIs500 ==
    [][ \A t \in Threads :
            (pc[t] \in PipelinePcs /\ Step(t)) =>
                /\ UNCHANGED globals
                /\ UNCHANGED loadsDone
                /\ pc'[t] = "done" =>
                     \/ resp'[t].code = 200
                     \/ IsFailed500(resp'[t]) ]_vars

C11_Witness ==
    \E t \in Threads :
        /\ PredictDone(t)
        /\ loadResult[t] = "loaded"
        /\ FeatureSet \subseteq data[t].keys
        /\ data[t].vals = "nonNumeric"
        /\ IsFailed500(resp[t])
        /\ AllSet

\* ------------------------------------------------------------ C12
\* C12: load_models runs before the body is read: a POST /predict whose load
\* failed is answered 500 with { error, status: "failed" } whether or not it
\* carries a JSON body, its body was never read, and it is never answered 400.
C12_LoadFailureIs500 ==
    \A t \in Threads :
        (PredictDone(t) /\ loadResult[t] = "failed") =>
            /\ IsFailed500(resp[t])
            /\ data[t] = AbsentBody
            /\ io[t]

C12_Witness ==
    \E t \in Threads :
        /\ PredictDone(t)
        /\ loadResult[t] = "failed"
        /\ sent[t] = "object"
        /\ IsFailed500(resp[t])

\* ------------------------------------------------------------ C13
\* the three shapes an answer of POST /predict can have
IsPredictAnswer(r) ==
    \/ /\ r.code = 200
       /\ "status" \in DOMAIN r.body
       /\ r.body.status = "success"
    \/ /\ r.code = 400
       /\ "error" \in DOMAIN r.body
    \/ IsFailed500(r)

\* the positions of a POST /predict handler, in program order
HandlerOrder ==
    << "load_models", "exists_model", "exists_scaler", "exists_label",
       "load_model", "load_scaler", "load_label", "get_json",
       "transform", "model_predict", "inverse_transform", "done" >>

Rank(p) == CHOOSE i \in 1..Len(HandlerOrder) : HandlerOrder[i] = p

\* C13: a POST /predict is answered exactly once and nothing escapes the
\* handler: while it runs it has no answer and every step moves it forward
\* in the handler, so it is done within Len(HandlerOrder) steps; once done
\* its answer is 200 success, 400 with an error key, or 500 with an error
\* key and status 'failed', and that answer no longer changes.
C13_AlwaysOneAnswer ==
    [][ \A t \in Threads :
            /\ route'[t] = "predict" =>
                   IF pc'[t] = "done"
                   THEN IsPredictAnswer(resp'[t])
                   ELSE resp'[t] = NoResp
            /\ (route[t] = "predict" /\ pc[t] # "done" /\ Step(t)) =>
                   Rank(pc'[t]) > Rank(pc[t])
            /\ (pc[t] = "done" /\ rid'[t] = rid[t]) =>
                   (pc'[t] = "done" /\ resp'[t] = resp[t]) ]_vars

C13_Witness ==
    \E t, u \in Threads :
        /\ PredictDone(t) /\ resp[t].code = 400
        /\ PredictDone(u) /\ resp[u].code = 500

\* ------------------------------------------------------------ C14
\* the pipeline of thread t's request ran with all three globals set
RanLoaded(t) == startedLoaded[t] \/ loadResult[t] = "loaded"

\* C14: with the artifacts loaded, the answer to POST /predict depends only
\* on the values under the 13 keys: two bodies holding the same 13 values,
\* whatever their key order and extra keys, get identical answers, and the
\* row handed to the scaler holds the value of FEATURE_COLUMNS[i] at i.
C14_OnlyTheThirteenValues ==
    /\ \A t, u \in Threads :
           ( /\ PredictDone(t) /\ RanLoaded(t)
             /\ PredictDone(u) /\ RanLoaded(u)
             /\ data[t].kind = "object" /\ FeatureSet \subseteq data[t].keys
             /\ data[u].kind = "object" /\ FeatureSet \subseteq data[u].keys
             /\ data[t].vals = data[u].vals )
           => resp[t] = resp[u]
    /\ \A t \in Threads :
           pc[t] = "transform" =>
               RowOf[data[t]] = ScoresOf(data[t].vals)
    /\ \A t \in Threads :
           (PredictDone(t) /\ resp[t].code = 200) =>
               resp[t].body.rekomendasi_jurusan =
                   Classify(ScoresOf(data[t].vals))

C14_Witness ==
    \E t, u \in Threads :
        /\ PredictDone(t) /\ RanLoaded(t)
        /\ PredictDone(u) /\ RanLoaded(u)
        /\ data[t].keys = FeatureSet \cup {"extra"}
        /\ data[u].order = "reversed"
        /\ data[t].vals = data[u].vals
        /\ resp[t].code = 200
        /\ resp[t] = resp[u]

\* ------------------------------------------------------------ C15
\* C15: GET /, GET /health and OPTIONS /predict are answered 200 at once in
\* every loader state and whatever the files are: they never enter
\* load_models, touch no file and assign none of the three globals.
C15_NoLoadOutsidePredict ==
    \A t \in Threads :
        route[t] \in {"home", "health", "options"} =>
            /\ pc[t] = "done"
            /\ resp[t].code = 200
            /\ loadResult[t] = "none"
            /\ ~io[t]
            /\ AssignedNothing(t)
            /\ (route[t] = "home" => resp[t] = HomeResponse)
            /\ (route[t] = "options" => resp[t] = OptionsResponse)

C15_Witness ==
    \E t \in Threads :
        /\ route[t] = "health"
        /\ pc[t] = "done"
        /\ resp[t].code = 200
        /\ files["model"] = "missing"
        /\ AllNone

\* ------------------------------------------------------------ C16
\* C16: a POST /predict answered 400 has been through load_models first: its
\* call returned, model is set and stays set, so GET /health answers
\* models_loaded true from then on; when the request did the load itself all
\* three globals are set, though no prediction may have succeeded.
C16_RejectedRequestHasLoaded ==
    \A t \in Threads :
        (PredictDone(t) /\ resp[t].code = 400) =>
            /\ loadResult[t] \in {"loaded", "skipped"}
            /\ HealthResponse.body.models_loaded = TRUE
            /\ (loadResult[t] = "loaded" => (AllSet /\ io[t]))

C16_Witness ==
    \E t, u \in Threads :
        /\ PredictDone(t)
        /\ resp[t].code = 400
        /\ loadResult[t] = "loaded"
        /\ ~successSeen
        /\ AllSet
        /\ pc[u] = "done" /\ route[u] = "health" /\ rid[u] > rid[t]
        /\ resp[u].body.models_loaded = TRUE

\* ------------------------------------------------------------ C17
\* C17: a POST /predict answered 200 or with status 'success' leaves model,
\* scaler and label_encoder all set, under every interleaving and every
\* outcome of the loads.
C17_SuccessOnlyWhenLoaded ==
    \A t \in Threads :
        ( /\ PredictDone(t)
          /\ \/ resp[t].code = 200
             \/ /\ "status" \in DOMAIN resp[t].body
                /\ resp[t].body.status = "success" )
        => /\ AllSet
           /\ successSeen
           /\ resp[t].code = 200
           /\ resp[t].body.status = "success"

C17_Witness ==
    \E t \in Threads :
        /\ PredictDone(t)
        /\ resp[t].code = 200
        /\ loadResult[t] = "skipped"
        /\ ~startedLoaded[t]
        /\ AllSet

====
